---- MODULE Spec2Model ----
(***************************************************************************)
(* A model of the Python binding of the commodity storage valuation        *)
(* library: cmdty_storage.py (class CmdtyStorage and intrinsic_value),     *)
(* together with the valuation engine the binding drives.                  *)
(*                                                                         *)
(* Units.  Rates and volumes of the storage accessors are held in tenths   *)
(* (255.2 is 2552), so that the arithmetic is integer arithmetic.  The     *)
(* result of a linear interpolation is kept as an exact fraction           *)
(* <<numerator, denominator>> with a positive denominator.                 *)
(*                                                                         *)
(* Time.  A .NET DateTime / Python datetime is a number of minutes since   *)
(* 2019-07-01 00:00.  A calendar window of five months is modelled.        *)
(***************************************************************************)
EXTENDS Integers, Sequences, FiniteSets, TLC

VARIABLES
    pc,         \* "new" before the constructor ran, "built" once a storage exists, "failed" after
                \* __init__ raised, "calling" while the arguments of a valuation are at hand, "valued" once it returned or raised
    ctor,       \* the arguments the constructor was called with
    storage,    \* the CmdtyStorage object (self._net_storage, self._freq), or NoStorage
    raised,     \* the exception the last operation raised, or "None"
    call,       \* the last operation: its name, its arguments and what it returned
    pending,    \* the arguments the caller has put together for intrinsic_value
    gui,        \* storage_gui.py: the output widgets, and the position of btn_clicked
    inputs      \* storage_gui.py: the input widgets and sheets

vars == <<pc, ctor, storage, raised, call, pending, gui, inputs>>

None == "None"
NoStorage == [exists |-> FALSE]
NoCall == [op |-> "none"]

\* storage_gui.py as loaded: the output widgets as created, the button enabled,
\* no click being handled.  progress_wgt.value is held in steps of
\* 1 / ProgressResolution.
WidgetsAsCreated ==
    [step |-> "idle",
     btn_disabled |-> FALSE,
     progress_wgt |-> 0,
     value_wgts |-> <<"", "", "">>,
     out |-> << >>,
     fwd_curve |-> None,
     val_results_3f |-> None,
     exception |-> None,
     raised_at |-> None,
     propagated |-> None]

(***************************************************************************)
(* Calendar                                                                *)
(***************************************************************************)
MinutesPerHour == 4 * 15
MinutesPerDay == 24 * 60

\* First day (days since 2019-07-01) of Jul, Aug, Sep, Oct, Nov, Dec 2019.
MonthStartDay == <<0, 31, 62, 92, 123, 153>>
MonthsPerQuarter == 12 \div 4

\* Index (0 = Jul 2019) of the month that holds day d.
MonthOfDay(d) ==
    (CHOOSE k \in 1..Len(MonthStartDay) :
        /\ MonthStartDay[k] <= d
        /\ \A j \in 1..Len(MonthStartDay) : MonthStartDay[j] <= d => j <= k) - 1

\* 2019-08-28, 2019-08-29 and 2019-09-25 as days since 2019-07-01.
Day_2019_08_28 == MonthStartDay[2] + 27
Day_2019_08_29 == MonthStartDay[2] + 28
Day_2019_09_25 == MonthStartDay[3] + 24

(***************************************************************************)
(* Cmdty.TimePeriodValueTypes: a period is its type and its index, the     *)
(* number of whole periods of that type since the epoch.                   *)
(***************************************************************************)
PeriodIndex(time_period_type, date_time) ==
    CASE time_period_type = "QuarterHour" -> date_time \div 15
      [] time_period_type = "HalfHour"    -> date_time \div 30
      [] time_period_type = "Hour"        -> date_time \div MinutesPerHour
      [] time_period_type = "Day"         -> date_time \div MinutesPerDay
      [] time_period_type = "Month"       -> MonthOfDay(date_time \div MinutesPerDay)
      [] time_period_type = "Quarter"     -> MonthOfDay(date_time \div MinutesPerDay) \div MonthsPerQuarter

\* TimePeriodFactory.FromDateTime<T>: the period of type T that holds date_time.
FromDateTime(time_period_type, date_time) ==
    [type |-> time_period_type, index |-> PeriodIndex(time_period_type, date_time)]

\* ITimePeriod.Start: the DateTime a period starts at.
PeriodStart(net_time_period) ==
    CASE net_time_period.type = "QuarterHour" -> net_time_period.index * 15
      [] net_time_period.type = "HalfHour"    -> net_time_period.index * 30
      [] net_time_period.type = "Hour"        -> net_time_period.index * MinutesPerHour
      [] net_time_period.type = "Day"         -> net_time_period.index * MinutesPerDay
      [] net_time_period.type = "Month"       -> MonthStartDay[net_time_period.index + 1] * MinutesPerDay
      [] net_time_period.type = "Quarter"     ->
            MonthStartDay[net_time_period.index * MonthsPerQuarter + 1] * MinutesPerDay

(***************************************************************************)
(* pandas: pd.Period(datetime, freq).  A period of a base frequency (H, D, *)
(* M, Q) is the calendar period that holds the datetime.  A period of a    *)
(* multiple of the minute (15min, 30min) starts at the minute given: the   *)
(* multiple is its length, not an alignment.                               *)
(***************************************************************************)
PandasPeriod(date_time, freq) ==
    [freq |-> freq,
     start |->
        CASE freq = "15min" -> date_time
          [] freq = "30min" -> date_time
          [] freq = "H" -> (date_time \div MinutesPerHour) * MinutesPerHour
          [] freq = "D" -> (date_time \div MinutesPerDay) * MinutesPerDay
          [] freq = "M" -> MonthStartDay[MonthOfDay(date_time \div MinutesPerDay) + 1] * MinutesPerDay
          [] freq = "Q" ->
                MonthStartDay[(MonthOfDay(date_time \div MinutesPerDay) \div MonthsPerQuarter)
                                * MonthsPerQuarter + 1] * MinutesPerDay]

(***************************************************************************)
(* cmdty_storage.py: conversions                                           *)
(***************************************************************************)
SupportedFreqs == {"15min", "30min", "H", "D", "M", "Q"}

FREQ_TO_PERIOD_TYPE ==
    [f \in SupportedFreqs |->
        CASE f = "15min" -> "QuarterHour"
          [] f = "30min" -> "HalfHour"
          [] f = "H" -> "Hour"
          [] f = "D" -> "Day"
          [] f = "M" -> "Month"
          [] f = "Q" -> "Quarter"]

\* A datetime_like is a date (no hour attribute) or a datetime.
Date(day) == [day |-> day, has_hour |-> FALSE, minute |-> 0]
DateTime(day, minute) == [day |-> day, has_hour |-> TRUE, minute |-> minute]

\* The datetime a datetime_like stands for (what pd.Period(datetime_like, ...) reads).
AsDateTime(datetime_like) == datetime_like.day * MinutesPerDay + datetime_like.minute

_from_datetime_like(datetime_like, time_period_type) ==
    LET time_args == IF datetime_like.has_hour THEN datetime_like.minute ELSE 0
        date_time == datetime_like.day * MinutesPerDay + time_args
    IN FromDateTime(time_period_type, date_time)

\* A variant that copies Year, Month and Day only.
_net_datetime_to_py_datetime_date_only(net_datetime) ==
    (net_datetime \div MinutesPerDay) * MinutesPerDay

\* Copies Year .. Millisecond field by field.
_net_datetime_to_py_datetime(net_datetime) == net_datetime

_net_time_period_to_pandas_period(net_time_period, freq) ==
    LET start_datetime == _net_datetime_to_py_datetime(PeriodStart(net_time_period))
    IN PandasPeriod(start_datetime, freq)

(***************************************************************************)
(* Exact fractions <<n, d>>, d > 0.                                        *)
(***************************************************************************)
Frac(n, d) == <<n, d>>
FracOfInt(n) == <<n, 1>>
FracEq(a, b) == a[1] * b[2] = b[1] * a[2]
FracLeq(a, b) == a[1] * b[2] <= b[1] * a[2]
FracLess(a, b) == a[1] * b[2] < b[1] * a[2]

Abs(x) == IF x < 0 THEN -x ELSE x

RECURSIVE Gcd(_, _)
Gcd(a, b) == IF b = 0 THEN a ELSE Gcd(b, a % b)

\* The fraction n / d in lowest terms.
Norm(n, d) == LET g == Gcd(Abs(n), d) IN <<n \div g, d \div g>>
FracAdd(a, b) == Norm(a[1] * b[2] + b[1] * a[2], a[2] * b[2])
FracSub(a, b) == Norm(a[1] * b[2] - b[1] * a[2], a[2] * b[2])
FracMul(a, b) == Norm(a[1] * b[1], a[2] * b[2])

RECURSIVE Pow2(_)
Pow2(n) == IF n <= 0 THEN 1 ELSE 2 * Pow2(n - 1)

\* Body(value), with the value computed once.
Bind(value, Body(_)) == CHOOSE r \in { Body(x) : x \in {value} } : TRUE

(***************************************************************************)
(* The engine's storage object (Cmdty.Storage.CmdtyStorage<T>) and its     *)
(* builder.                                                                *)
(***************************************************************************)
\* A breakpoint of a ratchet: InjectWithdrawRangeByInventory.
InjectWithdrawRangeByInventory(inventory, min_rate, max_rate) ==
    [Inventory |-> inventory, MinInjectWithdrawRate |-> min_rate, MaxInjectWithdrawRate |-> max_rate]

\* The breakpoints are in strictly ascending order of inventory.
BreakpointsSorted(rates) ==
    \A i \in 1..(Len(rates) - 1) : rates[i].Inventory < rates[i + 1].Inventory

\* No breakpoint has its min rate above its max rate.
BreakpointsOrdered(rates) ==
    \A i \in 1..Len(rates) : rates[i].MinInjectWithdrawRate <= rates[i].MaxInjectWithdrawRate

\* A variant of the validation that lets a min rate above a max rate through.
BuilderAcceptsAnyRates(start_period, end_period, net_constraints) ==
    /\ start_period.index < end_period.index
    /\ Len(net_constraints) > 0
    /\ \A i \in 1..Len(net_constraints) :
          /\ Len(net_constraints[i].Rates) > 0
          /\ BreakpointsSorted(net_constraints[i].Rates)
    /\ \A i, j \in 1..Len(net_constraints) :
          i # j => net_constraints[i].Period # net_constraints[j].Period

\* The builder's validation of a configuration: what Build() accepts.
BuilderAccepts(start_period, end_period, net_constraints) ==
    /\ start_period.index < end_period.index
    /\ Len(net_constraints) > 0
    /\ \A i \in 1..Len(net_constraints) :
          /\ Len(net_constraints[i].Rates) > 0
          /\ BreakpointsSorted(net_constraints[i].Rates)
          /\ BreakpointsOrdered(net_constraints[i].Rates)
    /\ \A i, j \in 1..Len(net_constraints) :
          i # j => net_constraints[i].Period # net_constraints[j].Period

\* The ratchets of the storage whose period is not after `period`.
RatchetsInForce(net_storage, period) ==
    {i \in 1..Len(net_storage.Ratchets) : net_storage.Ratchets[i].Period.index <= period.index}

HasRatchet(net_storage, period) == RatchetsInForce(net_storage, period) # {}

\* The ratchet effective at `period`: the latest one that is not after it.
EffectiveRatchet(net_storage, period) ==
    LET inForce == RatchetsInForce(net_storage, period)
        latest == CHOOSE i \in inForce :
                    \A j \in inForce :
                        net_storage.Ratchets[j].Period.index <= net_storage.Ratchets[i].Period.index
    IN net_storage.Ratchets[latest]

\* Linear interpolation of y between (x0, y0) and (x1, y1) at x, x0 <= x <= x1, x0 < x1.
LinearInterpolate(x0, y0, x1, y1, x) ==
    Norm(y0 * (x1 - x0) + (y1 - y0) * (x - x0), x1 - x0)

\* Piecewise linear inject/withdraw range of one ratchet at an inventory, clamped
\* to the boundary breakpoints.
RangeOfRatchet(rates, inventory) ==
    LET n == Len(rates)
    IN IF inventory <= rates[1].Inventory
       THEN [MinInjectWithdrawRate |-> FracOfInt(rates[1].MinInjectWithdrawRate),
             MaxInjectWithdrawRate |-> FracOfInt(rates[1].MaxInjectWithdrawRate)]
       ELSE IF inventory >= rates[n].Inventory
       THEN [MinInjectWithdrawRate |-> FracOfInt(rates[n].MinInjectWithdrawRate),
             MaxInjectWithdrawRate |-> FracOfInt(rates[n].MaxInjectWithdrawRate)]
       ELSE LET k == CHOOSE k \in 1..(n - 1) :
                        rates[k].Inventory <= inventory /\ inventory < rates[k + 1].Inventory
                lo == rates[k]
                hi == rates[k + 1]
            IN [MinInjectWithdrawRate |->
                    LinearInterpolate(lo.Inventory, lo.MinInjectWithdrawRate,
                                      hi.Inventory, hi.MinInjectWithdrawRate, inventory),
                MaxInjectWithdrawRate |->
                    LinearInterpolate(lo.Inventory, lo.MaxInjectWithdrawRate,
                                      hi.Inventory, hi.MaxInjectWithdrawRate, inventory)]

\* CmdtyStorage<T>.GetInjectWithdrawRange(period, inventory).
GetInjectWithdrawRange(net_storage, period, inventory) ==
    RangeOfRatchet(EffectiveRatchet(net_storage, period).Rates, inventory)

\* CmdtyStorage<T>.MinInventory(period) and MaxInventory(period): the lowest and
\* the highest breakpoint of the ratchet in force; zero at the end of a storage
\* that must be empty then.
MinInventory(net_storage, period) ==
    IF net_storage.MustBeEmptyAtEnd /\ period.index >= net_storage.EndPeriod.index
    THEN 0
    ELSE EffectiveRatchet(net_storage, period).Rates[1].Inventory

MaxInventory(net_storage, period) ==
    IF net_storage.MustBeEmptyAtEnd /\ period.index >= net_storage.EndPeriod.index
    THEN 0
    ELSE LET rates == EffectiveRatchet(net_storage, period).Rates
         IN rates[Len(rates)].Inventory

\* The terminal-value functions a caller may pass (price, inventory) -> value.
TerminalFunctions == {"price_times_inventory", "half_price_times_inventory"}

ApplyTerminalFunction(fn, cmdty_price, terminal_inventory) ==
    CASE fn = "price_times_inventory" -> cmdty_price * terminal_inventory
      [] fn = "half_price_times_inventory" -> (cmdty_price * terminal_inventory) \div 2

\* CmdtyStorage<T>.TerminalStorageNpv(price, inventory): a storage that must be
\* empty at the end has no terminal value.
TerminalStorageNpv(net_storage, cmdty_price, terminal_inventory) ==
    IF net_storage.MustBeEmptyAtEnd
    THEN 0
    ELSE ApplyTerminalFunction(net_storage.TerminalInventoryNpv, cmdty_price, terminal_inventory)

(***************************************************************************)
(* cmdty_storage.py: class CmdtyStorage                                    *)
(***************************************************************************)
\* A variant in which only the last ratchet reaches the builder's list.
NetConstraintsLastOnly(constraints, time_period_type) ==
    << [Period |-> _from_datetime_like(constraints[Len(constraints)].period, time_period_type),
        Rates |-> [k \in 1..Len(constraints[Len(constraints)].rates_by_inventory) |->
                        InjectWithdrawRangeByInventory(
                            constraints[Len(constraints)].rates_by_inventory[k][1],
                            constraints[Len(constraints)].rates_by_inventory[k][2],
                            constraints[Len(constraints)].rates_by_inventory[k][3])]] >>

\* __init__, the list of ratchets handed to the builder: each period converted,
\* each (inventory, min_rate, max_rate) triple made a breakpoint, order kept.
NetConstraints(constraints, time_period_type) ==
    [i \in 1..Len(constraints) |->
        [Period |-> _from_datetime_like(constraints[i].period, time_period_type),
         Rates |-> [k \in 1..Len(constraints[i].rates_by_inventory) |->
                        InjectWithdrawRangeByInventory(
                            constraints[i].rates_by_inventory[k][1],
                            constraints[i].rates_by_inventory[k][2],
                            constraints[i].rates_by_inventory[k][3])]]]

\* A variant that takes the MustBeEmptyAtEnd() step whatever is given.
TerminalRuleAlwaysEmpty(terminal_storage_npv) ==
    [MustBeEmptyAtEnd |-> TRUE, TerminalInventoryNpv |-> None]

\* __init__, the terminal rule handed to the builder: MustBeEmptyAtEnd() when no
\* terminal_storage_npv is given, WithTerminalInventoryNpv(function) otherwise.
TerminalRule(terminal_storage_npv) ==
    IF terminal_storage_npv = None
    THEN [MustBeEmptyAtEnd |-> TRUE, TerminalInventoryNpv |-> None]
    ELSE [MustBeEmptyAtEnd |-> FALSE, TerminalInventoryNpv |-> terminal_storage_npv]

\* An optional number is <<>> (Python's None) or <<x>>; the WithNo... builder
\* step taken for None stands for 0.
NoNumber == <<>>
Some(x) == <<x>>
OrZero(optional) == IF optional = NoNumber THEN 0 ELSE optional[1]

\* CmdtyStorage.__init__ after its check of freq: the conversions, the builder
\* steps and Build().
CmdtyStorage_build(a) ==
    LET time_period_type == FREQ_TO_PERIOD_TYPE[a.freq]
        start_period == _from_datetime_like(a.storage_start, time_period_type)
        end_period == _from_datetime_like(a.storage_end, time_period_type)
        net_constraints == NetConstraints(a.constraints, time_period_type)
        terminal == TerminalRule(a.terminal_storage_npv)
    IN IF ~BuilderAccepts(start_period, end_period, net_constraints)
       THEN [raised |-> "ValidationError", self |-> NoStorage]
       ELSE [raised |-> None,
             self |->
               [exists |-> TRUE,
                _freq |-> a.freq,
                _net_storage |->
                   [StartPeriod |-> start_period,
                    EndPeriod |-> end_period,
                    Ratchets |-> net_constraints,
                    InjectionCost |-> a.injection_cost,
                    WithdrawalCost |-> a.withdrawal_cost,
                    CmdtyConsumedOnInject |-> OrZero(a.cmdty_consumed_inject),
                    CmdtyConsumedOnWithdraw |-> OrZero(a.cmdty_consumed_withdraw),
                    CmdtyInventoryLoss |-> OrZero(a.inventory_loss),
                    CmdtyInventoryCost |-> OrZero(a.inventory_cost),
                    MustBeEmptyAtEnd |-> terminal.MustBeEmptyAtEnd,
                    TerminalInventoryNpv |-> terminal.TerminalInventoryNpv]]]

\* A variant without the check of freq: the look-up of the period type fails.
CmdtyStorage_init_unchecked(a) ==
    IF a.freq \notin SupportedFreqs
    THEN [raised |-> "KeyError", self |-> NoStorage]
    ELSE CmdtyStorage_build(a)

\* CmdtyStorage.__init__: what it raises and the object it leaves.
CmdtyStorage_init(a) ==
    IF a.freq \notin SupportedFreqs
    THEN [raised |-> "ValueError", self |-> NoStorage]
    ELSE CmdtyStorage_build(a)

_net_time_period(self, period) ==
    LET time_period_type == FREQ_TO_PERIOD_TYPE[self._freq]
    IN _from_datetime_like(period, time_period_type)

freq(self) == self._freq

must_be_empty_at_end(self) == self._net_storage.MustBeEmptyAtEnd

start_period(self) == _net_time_period_to_pandas_period(self._net_storage.StartPeriod, self._freq)

end_period(self) == _net_time_period_to_pandas_period(self._net_storage.EndPeriod, self._freq)

\* The tuple (min_inject_withdraw_rate, max_inject_withdraw_rate).
InjectWithdrawRange(min_inject_withdraw_rate, max_inject_withdraw_rate) ==
    <<min_inject_withdraw_rate, max_inject_withdraw_rate>>

\* A variant that returns the two rates in the other order.
inject_withdraw_range_swapped(self, period, inventory) ==
    LET net_time_period == _net_time_period(self, period)
        net_inject_withdraw == GetInjectWithdrawRange(self._net_storage, net_time_period, inventory)
    IN InjectWithdrawRange(net_inject_withdraw.MaxInjectWithdrawRate,
                           net_inject_withdraw.MinInjectWithdrawRate)

inject_withdraw_range(self, period, inventory) ==
    LET net_time_period == _net_time_period(self, period)
        net_inject_withdraw == GetInjectWithdrawRange(self._net_storage, net_time_period, inventory)
    IN InjectWithdrawRange(net_inject_withdraw.MinInjectWithdrawRate,
                           net_inject_withdraw.MaxInjectWithdrawRate)

min_inventory(self, period) ==
    LET net_time_period == _net_time_period(self, period)
    IN MinInventory(self._net_storage, net_time_period)

max_inventory(self, period) ==
    LET net_time_period == _net_time_period(self, period)
    IN MaxInventory(self._net_storage, net_time_period)

terminal_storage_npv(self, cmdty_price, terminal_inventory) ==
    TerminalStorageNpv(self._net_storage, cmdty_price, terminal_inventory)

(***************************************************************************)
(* The engine's intrinsic valuation (IntrinsicStorageValuation<T>): a      *)
(* backward induction over an inventory grid, then a forward replay of the *)
(* decisions.  Values are exact fractions.  A continuously compounded rate *)
(* is held as k, standing for the annual rate k * 365 * ln 2, so that the  *)
(* Act/365 discount factor over n days, exp(-rate * n / 365), is the exact *)
(* fraction 1 / 2^(k * n).                                                 *)
(***************************************************************************)
\* A TimeSeries<T, double>: indices must follow one another without a gap.
TimeSeries(indices, values) ==
    [ok |-> \A i \in 1..(Len(indices) - 1) : indices[i + 1].index = indices[i].index + 1,
     Indices |-> indices,
     Data |-> values]

SeriesCovers(series, period_index) ==
    /\ Len(series.Indices) > 0
    /\ period_index - series.Indices[1].index + 1 \in 1..Len(series.Data)

SeriesAt(series, period_index) == series.Data[period_index - series.Indices[1].index + 1]

PeriodOf(c, period_index) == [type |-> c.time_period_type, index |-> period_index]

Max2(a, b) == IF a >= b THEN a ELSE b

\* The first period valued: the current period, or the storage's start if later.
FirstPeriod(c) == Max2(c.current_period.index, c.net_storage.StartPeriod.index)

ActivePeriods(c) == FirstPeriod(c)..c.net_storage.EndPeriod.index

GlobalMinInventory(c) ==
    CHOOSE m \in { MinInventory(c.net_storage, PeriodOf(c, p)) : p \in ActivePeriods(c) } :
        \A p \in ActivePeriods(c) : m <= MinInventory(c.net_storage, PeriodOf(c, p))

GlobalMaxInventory(c) ==
    CHOOSE m \in { MaxInventory(c.net_storage, PeriodOf(c, p)) : p \in ActivePeriods(c) } :
        \A p \in ActivePeriods(c) : m >= MaxInventory(c.net_storage, PeriodOf(c, p))

\* A fixed number of points on the global inventory range, evenly spaced.
GlobalGrid(c) ==
    { GlobalMinInventory(c)
        + (k * (GlobalMaxInventory(c) - GlobalMinInventory(c))) \div (c.num_grid_points - 1) :
      k \in 0..(c.num_grid_points - 1) }

\* The grid of a period: the global points within the period's inventory range,
\* and the two ends of that range.
GridOf(c, period_index) ==
    LET lo == MinInventory(c.net_storage, PeriodOf(c, period_index))
        hi == MaxInventory(c.net_storage, PeriodOf(c, period_index))
    IN { g \in GlobalGrid(c) : lo <= g /\ g <= hi } \cup {lo, hi}

\* The discount factor of a cashflow of the period: settlement date by the
\* caller's rule, rate by the caller's function, Act/365 from the valuation date.
DiscountFactor(c, period_index) ==
    LET date == c.settlement_day[period_index]
        days == date - c.val_day
    IN Frac(1, Pow2(c.interest_rate[date] * days))

Infeasible == [ok |-> FALSE, v |-> FracOfInt(0), d |-> 0]

NodeAt(table, inventory) == CHOOSE n \in table : n.inv = inventory

\* Linear interpolation over the grid values of a period; clamped at the ends.
GridInterpolate(table, x) ==
    LET invs == { n.inv : n \in table }
        below == { i \in invs : i <= x }
        above == { i \in invs : i >= x }
    IN IF x \in invs THEN NodeAt(table, x)
       ELSE IF below = {} THEN NodeAt(table, CHOOSE i \in invs : \A j \in invs : i <= j)
       ELSE IF above = {} THEN NodeAt(table, CHOOSE i \in invs : \A j \in invs : i >= j)
       ELSE LET lo == NodeAt(table, CHOOSE i \in below : \A j \in below : i >= j)
                hi == NodeAt(table, CHOOSE i \in above : \A j \in above : i <= j)
            IN IF lo.ok /\ hi.ok
               THEN [ok |-> TRUE,
                     v |-> FracAdd(FracMul(lo.v, Frac(hi.inv - x, hi.inv - lo.inv)),
                                   FracMul(hi.v, Frac(x - lo.inv, hi.inv - lo.inv))),
                     d |-> 0]
               ELSE Infeasible

\* Volume of the commodity consumed by injecting or withdrawing |d|.
CmdtyConsumed(net_storage, d) ==
    IF d > 0 THEN (d * net_storage.CmdtyConsumedOnInject) \div 100
    ELSE ((-d) * net_storage.CmdtyConsumedOnWithdraw) \div 100

\* Inventory after the decision d and the period's inventory loss.
NextInventory(net_storage, inventory, d) ==
    inventory + d - (inventory * net_storage.CmdtyInventoryLoss) \div 100

\* The cashflow of the decision d at the price of the period: the commodity
\* bought or sold, the unit cost, the commodity consumed, the inventory cost.
Cashflow(net_storage, price, inventory, d) ==
    - d * price
    - (IF d > 0 THEN d * net_storage.InjectionCost ELSE (-d) * net_storage.WithdrawalCost)
    - CmdtyConsumed(net_storage, d) * price
    - inventory * net_storage.CmdtyInventoryCost

PresentValue(c, period_index, inventory, d) ==
    FracMul(FracOfInt(Cashflow(c.net_storage, SeriesAt(c.forward_curve, period_index), inventory, d)),
            DiscountFactor(c, period_index))

\* The decisions open at (period, inventory): within the inject/withdraw range
\* there, leaving an inventory within the next period's range from which the
\* recursion has a value.
FeasibleDecisions(c, period_index, inventory, next_table) ==
    LET range == GetInjectWithdrawRange(c.net_storage, PeriodOf(c, period_index), inventory)
        next_period == PeriodOf(c, period_index + 1)
        lowest == range.MinInjectWithdrawRate[1] \div range.MinInjectWithdrawRate[2]
        highest == -((-range.MaxInjectWithdrawRate[1]) \div range.MaxInjectWithdrawRate[2])
    IN { d \in lowest..highest :
            /\ FracLeq(range.MinInjectWithdrawRate, FracOfInt(d))
            /\ FracLeq(FracOfInt(d), range.MaxInjectWithdrawRate)
            /\ MinInventory(c.net_storage, next_period) <= NextInventory(c.net_storage, inventory, d)
            /\ NextInventory(c.net_storage, inventory, d) <= MaxInventory(c.net_storage, next_period)
            /\ GridInterpolate(next_table, NextInventory(c.net_storage, inventory, d)).ok }

Objective(c, period_index, inventory, d, next_table) ==
    FracAdd(PresentValue(c, period_index, inventory, d),
            GridInterpolate(next_table, NextInventory(c.net_storage, inventory, d)).v)

\* A variant that selects a decision of least objective.
SelectDecisionLeast(inventory, scored, numerical_tolerance) ==
    IF scored = {}
    THEN [inv |-> inventory, ok |-> FALSE, v |-> FracOfInt(0), d |-> 0]
    ELSE Bind(CHOOSE s \in scored : \A t \in scored : FracLeq(s.o, t.o),
              LAMBDA chosen : [inv |-> inventory, ok |-> TRUE, v |-> chosen.o, d |-> chosen.d])

\* A variant that breaks ties towards the largest |d|.
SelectDecisionLargest(inventory, scored, numerical_tolerance) ==
    IF scored = {}
    THEN [inv |-> inventory, ok |-> FALSE, v |-> FracOfInt(0), d |-> 0]
    ELSE Bind(CHOOSE s \in scored : \A t \in scored : FracLeq(t.o, s.o),
              LAMBDA best :
                Bind({ s \in scored : FracLeq(FracSub(best.o, numerical_tolerance), s.o) },
                     LAMBDA ties :
                        Bind(CHOOSE s \in ties :
                                \A t \in ties :
                                    Abs(s.d) > Abs(t.d) \/ (Abs(s.d) = Abs(t.d) /\ s.d <= t.d),
                             LAMBDA chosen :
                                [inv |-> inventory, ok |-> TRUE, v |-> chosen.o, d |-> chosen.d])))

\* The decision selected at (period, inventory) and its value: a maximum of the
\* objective; among the decisions within the tolerance of the maximum the one of
\* smallest |d|, a withdrawal before an injection of the same size.
SelectDecision(inventory, scored, numerical_tolerance) ==
    IF scored = {}
    THEN [inv |-> inventory, ok |-> FALSE, v |-> FracOfInt(0), d |-> 0]
    ELSE Bind(CHOOSE s \in scored : \A t \in scored : FracLeq(t.o, s.o),
              LAMBDA best :
                Bind({ s \in scored : FracLeq(FracSub(best.o, numerical_tolerance), s.o) },
                     LAMBDA ties :
                        Bind(CHOOSE s \in ties :
                                \A t \in ties :
                                    Abs(s.d) < Abs(t.d) \/ (Abs(s.d) = Abs(t.d) /\ s.d <= t.d),
                             LAMBDA chosen :
                                [inv |-> inventory, ok |-> TRUE, v |-> chosen.o, d |-> chosen.d])))

OptimalDecision(c, period_index, inventory, next_table) ==
    Bind({ [d |-> d, o |-> Objective(c, period_index, inventory, d, next_table)] :
            d \in FeasibleDecisions(c, period_index, inventory, next_table) },
         LAMBDA scored : SelectDecision(inventory, scored, c.numerical_tolerance))

\* The values at the end period: the terminal rule at the forward price there.
TerminalTable(c) ==
    LET end == c.net_storage.EndPeriod.index
    IN { [inv |-> i, ok |-> TRUE, d |-> 0,
          v |-> FracOfInt(TerminalStorageNpv(c.net_storage, SeriesAt(c.forward_curve, end), i))] :
         i \in GridOf(c, end) }

\* The backward sweep: the grid values and decisions of the periods from
\* period_index to the end, the end's last.
RECURSIVE BackwardSweep(_, _)
BackwardSweep(c, period_index) ==
    IF period_index >= c.net_storage.EndPeriod.index
    THEN << TerminalTable(c) >>
    ELSE Bind(BackwardSweep(c, period_index + 1),
              LAMBDA later :
                << { OptimalDecision(c, period_index, i, later[1]) : i \in GridOf(c, period_index) } >>
                \o later)

\* The forward replay from an inventory at period_index: the decisions taken,
\* each selected at the inventory reached.  tables is the sweep from period_index on.
RECURSIVE ForwardReplay(_, _, _, _)
ForwardReplay(c, tables, period_index, inventory) ==
    IF Len(tables) <= 1
    THEN [ok |-> TRUE, decisions |-> << >>]
    ELSE Bind(OptimalDecision(c, period_index, inventory, tables[2]),
              LAMBDA here :
                IF ~here.ok
                THEN [ok |-> FALSE, decisions |-> << >>]
                ELSE Bind(ForwardReplay(c, Tail(tables), period_index + 1,
                                        NextInventory(c.net_storage, inventory, here.d)),
                          LAMBDA rest :
                            IF ~rest.ok
                            THEN [ok |-> FALSE, decisions |-> << >>]
                            ELSE [ok |-> TRUE, decisions |-> << here.d >> \o rest.decisions]))

NoResults == [NetPresentValue |-> FracOfInt(0), DecisionProfile |-> TimeSeries(<< >>, << >>),
              CmdtyVolumeConsumed |-> TimeSeries(<< >>, << >>)]

\* The sweep from the first period, the value at the starting inventory and the replay.
SweepAndReplay(c, first, end) ==
    Bind(BackwardSweep(c, first),
         LAMBDA tables :
            Bind(<<GridInterpolate(tables[1], c.inventory),
                   ForwardReplay(c, tables, first, c.inventory),
                   [i \in 1..(end - first) |-> PeriodOf(c, first + i - 1)]>>,
                 LAMBDA r :
                    IF ~r[1].ok \/ ~r[2].ok
                    THEN [error |-> "EngineError", results |-> NoResults]
                    ELSE [error |-> None,
                          results |->
                            [NetPresentValue |-> r[1].v,
                             DecisionProfile |-> TimeSeries(r[3], r[2].decisions),
                             CmdtyVolumeConsumed |->
                                TimeSeries(r[3],
                                           [i \in 1..(end - first) |->
                                                CmdtyConsumed(c.net_storage, r[2].decisions[i])])]]))

\* IIntrinsicCalculate.Calculate().
Calculate(c) ==
    LET first == FirstPeriod(c)
        end == c.net_storage.EndPeriod.index
    IN IF first >= end
       THEN [error |-> None, results |-> NoResults]
       ELSE IF \E p \in first..end : ~HasRatchet(c.net_storage, PeriodOf(c, p))
                                     \/ ~SeriesCovers(c.forward_curve, p)
       THEN [error |-> "EngineError", results |-> NoResults]
       ELSE IF \/ c.inventory < MinInventory(c.net_storage, PeriodOf(c, first))
               \/ c.inventory > MaxInventory(c.net_storage, PeriodOf(c, first))
       THEN [error |-> "DomainError", results |-> NoResults]
       ELSE SweepAndReplay(c, first, end)

(***************************************************************************)
(* cmdty_storage.py: intrinsic_value                                       *)
(***************************************************************************)
\* A pandas Series over a PeriodIndex: the frequency, the first period (as the
\* datetime_like it was made from) and the values.
Series(freq_, first, values) == [freq |-> freq_, first |-> first, values |-> values]

\* PeriodIndex.freqstr of a period index of each granularity.
FreqStr(f) ==
    CASE f = "15min" -> "15T"
      [] f = "30min" -> "30T"
      [] f = "Q" -> "Q-DEC"
      [] OTHER -> f

\* series.index[i - 1]: the i-th period of the index, read as a datetime_like
\* (year, month, day, hour, minute of the period's start).
SeriesIndexAt(series, i) ==
    LET first == PandasPeriod(AsDateTime(series.first), series.freq).start
        month == MonthOfDay(first \div MinutesPerDay)
        start ==
            CASE series.freq = "15min" -> first + 15 * (i - 1)
              [] series.freq = "30min" -> first + 30 * (i - 1)
              [] series.freq = "H" -> first + MinutesPerHour * (i - 1)
              [] series.freq = "D" -> first + MinutesPerDay * (i - 1)
              [] series.freq = "M" -> MonthStartDay[month + (i - 1) + 1] * MinutesPerDay
              [] series.freq = "Q" ->
                    MonthStartDay[month + MonthsPerQuarter * (i - 1) + 1] * MinutesPerDay
    IN DateTime(start \div MinutesPerDay, start % MinutesPerDay)

_series_to_time_series(series, time_period_type) ==
    TimeSeries([i \in 1..Len(series.values) |->
                    _from_datetime_like(SeriesIndexAt(series, i), time_period_type)],
               [i \in 1..Len(series.values) |-> series.values[i]])

\* A variant that leaves the first entry of the series out.
_net_time_series_to_pandas_series_from_1(net_time_series, freq_) ==
    LET curve_start_datetime == _net_datetime_to_py_datetime(PeriodStart(net_time_series.Indices[1]))
    IN [freq |-> freq_,
        start |-> PandasPeriod(curve_start_datetime, freq_).start,
        values |-> [idx \in 1..(Len(net_time_series.Data) - 1) |-> net_time_series.Data[idx + 1]]]

_net_time_series_to_pandas_series(net_time_series, freq_) ==
    LET curve_start_datetime == _net_datetime_to_py_datetime(PeriodStart(net_time_series.Indices[1]))
    IN [freq |-> freq_,
        start |-> PandasPeriod(curve_start_datetime, freq_).start,
        values |-> [idx \in 1..Len(net_time_series.Data) |-> net_time_series.Data[idx]]]

\* The caller's settlement rules: a period settles on the day it starts, or the day after.
SettlementRules == {"same_day", "next_day"}
ApplySettlementRule(settlement_rule, period) ==
    (PeriodStart(period) \div MinutesPerDay) + (IF settlement_rule = "next_day" THEN 1 ELSE 0)

\* interest_rates[_net_time_period_to_pandas_period(cashFlowDate, 'D')]
InterestRateFunc(interest_rates, cash_flow_day) ==
    LET key == _net_time_period_to_pandas_period([type |-> "Day", index |-> cash_flow_day], "D")
    IN interest_rates[key.start \div MinutesPerDay]

NoValuation == [npv |-> FracOfInt(0), decision_profile |-> None, cmdty_consumed |-> None]

\* The calculation as intrinsic_value configures it, step by step, with
\* `inventory` as the starting inventory.
IntrinsicCalc(cmdty_storage, a, inventory) ==
    LET time_period_type == FREQ_TO_PERIOD_TYPE[cmdty_storage._freq]
        net_storage == cmdty_storage._net_storage
        current_period == _from_datetime_like(a.val_date, time_period_type)
        periods == Max2(current_period.index, net_storage.StartPeriod.index)
                       ..net_storage.EndPeriod.index
        settlement_day ==
            [p \in periods |->
                ApplySettlementRule(a.settlement_rule, [type |-> time_period_type, index |-> p])]
    IN [net_storage |-> net_storage,
        time_period_type |-> time_period_type,
        inventory |-> inventory,
        current_period |-> current_period,
        forward_curve |-> _series_to_time_series(a.forward_curve, time_period_type),
        settlement_day |-> settlement_day,
        interest_rate |->
            [day \in { settlement_day[p] : p \in periods } |->
                InterestRateFunc(a.interest_rates, day)],
        val_day |-> PeriodStart(current_period) \div MinutesPerDay,
        num_grid_points |-> a.num_inventory_grid_points,
        numerical_tolerance |-> a.numerical_tolerance]

\* The results of the calculation, converted.
ValuationResults(net_val_results, freq_) ==
    IF net_val_results.error # None
    THEN [raised |-> net_val_results.error, stage |-> "calculate", result |-> NoValuation]
    ELSE IF Len(net_val_results.results.DecisionProfile.Data) = 0
    THEN [raised |-> "IndexError", stage |-> "results", result |-> NoValuation]
    ELSE [raised |-> None, stage |-> "returned",
          result |->
            [npv |-> net_val_results.results.NetPresentValue,
             decision_profile |->
                _net_time_series_to_pandas_series(net_val_results.results.DecisionProfile, freq_),
             cmdty_consumed |->
                _net_time_series_to_pandas_series(net_val_results.results.CmdtyVolumeConsumed,
                                                  freq_)]]

\* intrinsic_value after the frequency check: the calculation is configured
\* with `inventory` as the starting inventory, run, and its results converted.
_intrinsic_calc(cmdty_storage, a, inventory) ==
    Bind(IntrinsicCalc(cmdty_storage, a, inventory),
         LAMBDA c :
            IF ~c.forward_curve.ok
            THEN [raised |-> "EngineError", stage |-> "forward_curve", result |-> NoValuation]
            ELSE IF a.num_inventory_grid_points < 2
            THEN [raised |-> "ValidationError", stage |-> "grid_points", result |-> NoValuation]
            ELSE Bind(Calculate(c),
                      LAMBDA net_val_results :
                        ValuationResults(net_val_results, cmdty_storage._freq)))

\* A variant without the frequency check.
intrinsic_value_unchecked(cmdty_storage, a) ==
    _intrinsic_calc(cmdty_storage, a, a.inventory)

\* A variant that hands the number of grid points to the engine as the starting inventory.
intrinsic_value_grid_points_as_inventory(cmdty_storage, a) ==
    IF cmdty_storage._freq # FreqStr(a.forward_curve.freq)
    THEN [raised |-> "ValueError", stage |-> "frequency_check", result |-> NoValuation]
    ELSE _intrinsic_calc(cmdty_storage, a, a.num_inventory_grid_points)

intrinsic_value(cmdty_storage, a) ==
    IF cmdty_storage._freq # FreqStr(a.forward_curve.freq)
    THEN [raised |-> "ValueError", stage |-> "frequency_check", result |-> NoValuation]
    ELSE _intrinsic_calc(cmdty_storage, a, a.inventory)

(***************************************************************************)
(* The arguments the operations are called with.                           *)
(***************************************************************************)
MaxBreakpoints == 3
MaxRatchets == 2

CtorFreqs == SupportedFreqs \cup {"W"}

Day_2019_09_10 == MonthStartDay[3] + 9
Day_2019_10_03 == MonthStartDay[4] + 2

StartEndLikes ==
    {Date(Day_2019_08_28), Date(Day_2019_09_25), Date(Day_2019_10_03),
     DateTime(Day_2019_08_28, 7), DateTime(Day_2019_08_28, 45),
     DateTime(Day_2019_08_28, 10 * MinutesPerHour + 30)}

\* The ratchet of the unit test: 0 -> (-150.0, 255.2), 2000.0 -> (-200.0, 175.0).
TestRates == << <<0, -1500, 2552>>, <<20000, -2000, 1750>> >>
TestInventory == 10000

InjectWithdrawByInventoryAndPeriod(period, rates_by_inventory) ==
    [period |-> period, rates_by_inventory |-> rates_by_inventory]

\* Lists of up to MaxBreakpoints breakpoints: the inventories 0.0, 1000.0, 2000.0,
\* ... in ascending order, with the first two swapped, or with the first one
\* repeated; at each breakpoint one of three pairs of rates, the last of them
\* with its min rate above its max rate.
InventoryStep == TestInventory
BreakInventories(n) ==
    { [k \in 1..n |-> (k - 1) * InventoryStep],
      [k \in 1..n |-> IF k = 1 THEN InventoryStep ELSE IF k = 2 THEN 0 ELSE (k - 1) * InventoryStep],
      [k \in 1..n |-> IF k = 1 THEN 0 ELSE (k - 2) * InventoryStep] }
RateRanges == { <<-1500, 2552>>, <<-2000, 1750>>, <<1750, -1500>> }
RatesLists ==
    UNION { { [k \in 1..n |-> <<inventories[k], rates[k][1], rates[k][2]>>] :
                inventories \in BreakInventories(n), rates \in [1..n -> RateRanges] } :
            n \in 1..MaxBreakpoints }
RatchetDates == {Date(Day_2019_08_28), Date(Day_2019_09_10)}

FirstRatchets == { InjectWithdrawByInventoryAndPeriod(d, l) : d \in RatchetDates, l \in RatesLists }
LaterRatchets ==
    { InjectWithdrawByInventoryAndPeriod(Date(Day_2019_09_10), << <<0, -1000, 1000>> >>),
      InjectWithdrawByInventoryAndPeriod(Date(Day_2019_08_28),
                                         << <<0, -500, 3000>>, <<20000, -2500, 500>> >>) }

RECURSIVE RatchetListsOfLen(_)
RatchetListsOfLen(n) ==
    IF n = 1
    THEN { <<r>> : r \in FirstRatchets }
    ELSE { Append(l, r) : l \in RatchetListsOfLen(n - 1), r \in LaterRatchets }

RatchetLists == UNION { RatchetListsOfLen(n) : n \in 1..MaxRatchets }

CtorArgs(f, s, e, c, t) ==
    [freq |-> f, storage_start |-> s, storage_end |-> e, constraints |-> c,
     injection_cost |-> 15, withdrawal_cost |-> 20,
     cmdty_consumed_inject |-> Some(1), cmdty_consumed_withdraw |-> NoNumber,
     terminal_storage_npv |-> t, inventory_loss |-> NoNumber, inventory_cost |-> NoNumber]

\* Every granularity and window, with the unit test's ratchet from the start on.
WindowArgs ==
    { CtorArgs(f, s, e, <<InjectWithdrawByInventoryAndPeriod(s, TestRates)>>, t) :
        f \in CtorFreqs, s \in StartEndLikes, e \in StartEndLikes,
        t \in {None} \cup TerminalFunctions }

\* The unit test's daily window, with every list of ratchets.
RatchetArgs ==
    { CtorArgs("D", Date(Day_2019_08_28), Date(Day_2019_09_25), c, None) : c \in RatchetLists }

QueryPeriods ==
    {Date(Day_2019_08_28), Date(Day_2019_08_29), Date(Day_2019_09_10), Date(Day_2019_09_25)}
QueryInventories == {-5000, 0, 5000, 10000, 15000, 20000, 25000}
QueryPrices == {3, 8}

(***************************************************************************)
(* storage_gui.py: the input widgets, and the functions that read them     *)
(***************************************************************************)
gui_freq == "D"

\* A date cell of a sheet: its text is empty (""), that of a date ("date", and
\* the day it names) or other text ("junk").
Cell(text, day) == [text |-> text, day |-> day]

\* pd.Period(text, freq=freq) of a cell's text: other text is a ValueError.
PeriodOfCell(cell) ==
    IF cell.text = "date"
    THEN [raised |-> None, period |-> Date(cell.day)]
    ELSE [raised |-> "ValueError", period |-> Date(0)]

\* The rows of fwd_input_sheet above its first row with an empty fwd_start.
RECURSIVE FilledFwdRows(_, _)
FilledFwdRows(fwd_input_sheet, fwd_row) ==
    IF fwd_row > Len(fwd_input_sheet) \/ fwd_input_sheet[fwd_row].fwd_start.text = ""
    THEN << >>
    ELSE <<fwd_input_sheet[fwd_row]>> \o FilledFwdRows(fwd_input_sheet, fwd_row + 1)

\* read_fwd_curve(): the prices of the filled rows, resampled to gui_freq with
\* each day without a row taking the price of the row before it.
read_fwd_curve(fwd_input_sheet) ==
    LET rows == FilledFwdRows(fwd_input_sheet, 1)
    IN IF \E i \in 1..Len(rows) : PeriodOfCell(rows[i].fwd_start).raised # None
       THEN [raised |-> "ValueError", fwd_curve |-> Series(gui_freq, Date(0), << >>)]
       ELSE LET first == rows[1].fwd_start.day
                last == rows[Len(rows)].fwd_start.day
                RowAt(day) ==
                    CHOOSE i \in 1..Len(rows) :
                        /\ rows[i].fwd_start.day <= day
                        /\ \A j \in 1..Len(rows) :
                              rows[j].fwd_start.day <= day
                                  => rows[j].fwd_start.day <= rows[i].fwd_start.day
            IN [raised |-> None,
                fwd_curve |->
                    Series(gui_freq, Date(first),
                           [k \in 1..(last - first + 1) |-> rows[RowAt(first + k - 1)].price])]

RatchetRow(date, inventory, inject_rate, withdraw_rate) ==
    [date |-> date, inventory |-> inventory,
     inject_rate |-> inject_rate, withdraw_rate |-> withdraw_rate]

\* read_ratchets(): a row with a date opens a ratchet, a row without one adds
\* a breakpoint to the ratchet opened last; dt_item is unbound until a row
\* with a date has been read.
RECURSIVE ReadRatchetRows(_, _, _)
ReadRatchetRows(rows, ratchet_row, ratchets) ==
    IF ratchet_row > Len(rows)
    THEN [raised |-> None, ratchets |-> ratchets]
    ELSE LET ratch == rows[ratchet_row]
             rates == <<ratch.inventory, -ratch.inject_rate, ratch.withdraw_rate>>
             period == PeriodOfCell(ratch.date)
         IN IF ratch.date.text # ""
            THEN IF period.raised # None
                 THEN [raised |-> period.raised, ratchets |-> << >>]
                 ELSE ReadRatchetRows(rows, ratchet_row + 1,
                          Append(ratchets,
                                 InjectWithdrawByInventoryAndPeriod(period.period, <<rates>>)))
            ELSE IF ratchets = << >>
                 THEN [raised |-> "UnboundLocalError", ratchets |-> << >>]
                 ELSE ReadRatchetRows(rows, ratchet_row + 1,
                          [ratchets EXCEPT ![Len(ratchets)].rates_by_inventory = Append(@, rates)])

read_ratchets(ratch_input_sheet) == ReadRatchetRows(ratch_input_sheet, 1, << >>)

\* The parameters of CmdtyStorage.__init__, and those of them without a default.
InitParameters ==
    {"freq", "storage_start", "storage_end", "constraints", "injection_cost",
     "withdrawal_cost", "cmdty_consumed_inject", "cmdty_consumed_withdraw",
     "terminal_storage_npv", "inventory_loss", "inventory_cost"}
InitRequired ==
    {"freq", "storage_start", "storage_end", "constraints", "injection_cost", "withdrawal_cost"}

\* CmdtyStorage(...) called with the arguments given by name (freq, given by
\* position, is the first parameter): Python binds them to the parameters of
\* __init__ before its body runs.
CmdtyStorage(arguments) ==
    LET given == DOMAIN arguments
        Optional(name) == IF name \in given THEN arguments[name] ELSE NoNumber
    IN IF ~(given \subseteq InitParameters) \/ ~(InitRequired \subseteq given)
       THEN [raised |-> "TypeError", self |-> NoStorage]
       ELSE CmdtyStorage_init(
                [freq |-> arguments.freq,
                 storage_start |-> arguments.storage_start,
                 storage_end |-> arguments.storage_end,
                 constraints |-> arguments.constraints,
                 injection_cost |-> arguments.injection_cost,
                 withdrawal_cost |-> arguments.withdrawal_cost,
                 cmdty_consumed_inject |-> Optional("cmdty_consumed_inject"),
                 cmdty_consumed_withdraw |-> Optional("cmdty_consumed_withdraw"),
                 terminal_storage_npv |->
                    IF "terminal_storage_npv" \in given
                    THEN arguments.terminal_storage_npv ELSE None,
                 inventory_loss |-> Optional("inventory_loss"),
                 inventory_cost |-> Optional("inventory_cost")])

\* The arguments btn_clicked gives for each storage type.
SimpleArguments(w) ==
    [freq |-> gui_freq, storage_start |-> w.start_wgt, storage_end |-> w.end_wgt,
     injection_cost |-> w.inj_cost_wgt, withdrawal_cost |-> w.with_cost_wgt,
     min_inventory |-> w.invent_min_wgt, max_inventory |-> w.invent_max_wgt,
     max_injection_rate |-> w.inj_rate_wgt, max_withdrawal_rate |-> w.with_rate_wgt]
RatchetArguments(w, ratchets) ==
    [freq |-> gui_freq, storage_start |-> w.start_wgt, storage_end |-> w.end_wgt,
     injection_cost |-> w.inj_cost_wgt, withdrawal_cost |-> w.with_cost_wgt,
     constraints |-> ratchets]

\* What the user may have entered.  The storage as "Populate Test Data" fills
\* it in: inventory 0.0 to 100000.0, injection rate 260.0, withdrawal rate
\* 130.0, costs 1.1 and 1.3; the window either way round.  Sheets of ratchets:
\* one ratchet of two breakpoints; the same with no date in its first row; two
\* ratchets; one ratchet with its breakpoints in descending order.  Forward
\* curve sheets (rows of fwd_start and price): prices from the storage's start
\* to after its end, and the same with text that is no date in the second row.
GuiInputs ==
    { [stor_type_wgt |-> stor_type, start_wgt |-> window[1], end_wgt |-> window[2],
       inj_cost_wgt |-> 11, with_cost_wgt |-> 13,
       invent_min_wgt |-> 0, invent_max_wgt |-> 1000000,
       inj_rate_wgt |-> 2600, with_rate_wgt |-> 1300,
       ratch_input_sheet |-> ratch_input_sheet, fwd_input_sheet |-> fwd_input_sheet] :
        stor_type \in {"Simple", "Ratchets"},
        window \in { <<Date(Day_2019_08_28), Date(Day_2019_09_25)>>,
                     <<Date(Day_2019_09_25), Date(Day_2019_08_28)>> },
        ratch_input_sheet \in
            { << RatchetRow(Cell("date", Day_2019_08_28), 0, 1500, 2552),
                 RatchetRow(Cell("", 0), 20000, 2000, 1750) >>,
              << RatchetRow(Cell("", 0), 0, 1500, 2552),
                 RatchetRow(Cell("", 0), 20000, 2000, 1750) >>,
              << RatchetRow(Cell("date", Day_2019_08_28), 0, 1500, 2552),
                 RatchetRow(Cell("date", Day_2019_09_10), 0, 1000, 1000) >>,
              << RatchetRow(Cell("date", Day_2019_08_28), 20000, 2000, 1750),
                 RatchetRow(Cell("", 0), 0, 1500, 2552) >> },
        fwd_input_sheet \in
            { << [fwd_start |-> Cell("date", Day_2019_08_28), price |-> 58],
                 [fwd_start |-> Cell("date", Day_2019_09_10), price |-> 61],
                 [fwd_start |-> Cell("date", Day_2019_10_03), price |-> 62],
                 [fwd_start |-> Cell("", 0), price |-> 0] >>,
              << [fwd_start |-> Cell("date", Day_2019_08_28), price |-> 58],
                 [fwd_start |-> Cell("junk", 0), price |-> 61],
                 [fwd_start |-> Cell("", 0), price |-> 0] >> } }

\* The input widgets when the GUI is first used: a simple storage, the window
\* the right way round, sheets that read without an exception.
InputsAsPopulated ==
    CHOOSE w \in GuiInputs :
        /\ w.stor_type_wgt = "Simple"
        /\ AsDateTime(w.start_wgt) < AsDateTime(w.end_wgt)
        /\ w.ratch_input_sheet[2].inject_rate = 1000
        /\ Len(w.fwd_input_sheet) = 4

(***************************************************************************)
(* The operations                                                          *)
(***************************************************************************)
Init ==
    /\ pc = "new"
    /\ ctor = [freq |-> None]
    /\ storage = NoStorage
    /\ raised = None
    /\ call = NoCall
    /\ pending = NoCall
    /\ gui = WidgetsAsCreated
    /\ inputs = InputsAsPopulated

\* storage = CmdtyStorage(freq, storage_start, storage_end, constraints, ...)
ConstructWith(a) ==
    /\ pc = "new"
    /\ LET r == CmdtyStorage_init(a)
       IN /\ ctor' = a
          /\ storage' = r.self
          /\ raised' = r.raised
          /\ pc' = IF r.raised = None THEN "built" ELSE "failed"
    /\ call' = [op |-> "__init__"]
    /\ UNCHANGED <<pending, gui, inputs>>

Construct ==
    /\ pc = "new"
    /\ \E a \in WindowArgs \cup RatchetArgs : ConstructWith(a)

\* storage.freq, storage.must_be_empty_at_end, storage.start_period, storage.end_period
ReadProperties ==
    /\ pc = "built"
    /\ call' = [op |-> "properties",
                freq |-> freq(storage),
                must_be_empty_at_end |-> must_be_empty_at_end(storage),
                start_period |-> start_period(storage),
                end_period |-> end_period(storage)]
    /\ raised' = None
    /\ UNCHANGED <<pc, ctor, storage, pending, gui, inputs>>

\* storage.inject_withdraw_range(period, inventory); the engine has no range for
\* a period at which no ratchet is in force yet.
CallInjectWithdrawRange ==
    /\ pc = "built"
    /\ \E period \in QueryPeriods, inventory \in QueryInventories :
          IF HasRatchet(storage._net_storage, _net_time_period(storage, period))
          THEN /\ call' = [op |-> "inject_withdraw_range", period |-> period,
                           inventory |-> inventory,
                           result |-> inject_withdraw_range(storage, period, inventory)]
               /\ raised' = None
          ELSE /\ call' = [op |-> "inject_withdraw_range", period |-> period,
                           inventory |-> inventory, result |-> None]
               /\ raised' = "EngineError"
    /\ UNCHANGED <<pc, ctor, storage, pending, gui, inputs>>

\* storage.terminal_storage_npv(cmdty_price, terminal_inventory)
CallTerminalStorageNpv ==
    /\ pc = "built"
    /\ \E cmdty_price \in QueryPrices, terminal_inventory \in QueryInventories :
          call' = [op |-> "terminal_storage_npv", cmdty_price |-> cmdty_price,
                   terminal_inventory |-> terminal_inventory,
                   result |-> terminal_storage_npv(storage, cmdty_price, terminal_inventory)]
    /\ raised' = None
    /\ UNCHANGED <<pc, ctor, storage, pending, gui, inputs>>

Next ==
    \/ Construct
    \/ ReadProperties
    \/ CallInjectWithdrawRange
    \/ CallTerminalStorageNpv

Spec == Init /\ [][Next]_vars

(***************************************************************************)
(* Valuation: small storages, and the arguments of intrinsic_value.        *)
(***************************************************************************)
MaxValPeriods == 2

ValDay == Day_2019_08_28

\* <<freq, storage_start, storage_end, start of the second period>>
ValWindows ==
    { <<"D", Date(ValDay), Date(ValDay + t), Date(ValDay + 1)>> : t \in 0..MaxValPeriods }
    \cup { <<"D", Date(ValDay + 1), Date(ValDay), Date(ValDay + 1)>>,
           <<"H", DateTime(ValDay, 0), DateTime(ValDay, 2 * MinutesPerHour),
             DateTime(ValDay, MinutesPerHour)>>,
           <<"15min", DateTime(ValDay, 0), DateTime(ValDay, 15), DateTime(ValDay, 15)>>,
           <<"30min", DateTime(ValDay, 0), DateTime(ValDay, 30), DateTime(ValDay, 30)>>,
           <<"M", Date(ValDay), Date(Day_2019_09_25), Date(Day_2019_09_25)>>,
           <<"Q", Date(ValDay), Date(Day_2019_10_03), Date(Day_2019_10_03)>> }

FlatRates == << <<0, -2, 2>>, <<4, -2, 2>> >>
SlopedRates == << <<0, -1, 3>>, <<4, -3, 1>> >>
NarrowRates == << <<0, -1, 1>>, <<2, -1, 1>> >>
UnsortedRates == << <<4, -2, 2>>, <<0, -2, 2>> >>
InvertedRates == << <<0, 2, -2>>, <<4, -2, 2>> >>

ValConstraints(w) ==
    { <<InjectWithdrawByInventoryAndPeriod(w[2], r)>> :
        r \in {FlatRates, SlopedRates, UnsortedRates, InvertedRates} }
    \cup { <<InjectWithdrawByInventoryAndPeriod(w[2], FlatRates),
             InjectWithdrawByInventoryAndPeriod(w[4], NarrowRates)>> }

ValCosts == { <<0, 0>>, <<1, 2>> }

ValArgs ==
    UNION { { [freq |-> w[1], storage_start |-> w[2], storage_end |-> w[3], constraints |-> c,
               injection_cost |-> k[1], withdrawal_cost |-> k[2],
               cmdty_consumed_inject |-> NoNumber, cmdty_consumed_withdraw |-> NoNumber,
               terminal_storage_npv |-> t, inventory_loss |-> NoNumber,
               inventory_cost |-> NoNumber] :
              c \in ValConstraints(w), k \in ValCosts, t \in {None, "price_times_inventory"} } :
            w \in ValWindows }

Prices == {1, 3}
StartingInventories == {0, 1, 4, 5}
GridPointCounts == {1, 2, 3}
Tolerances == { FracOfInt(0), FracOfInt(1) }

\* The number of periods from the storage's start to its end, the end included.
WindowLength(self) == self._net_storage.EndPeriod.index - self._net_storage.StartPeriod.index + 1

\* Lists of n prices: flat at either price, and alternating from either price.
PriceLists(n) ==
    { [i \in 1..n |-> p] : p \in Prices }
    \cup { [i \in 1..n |-> IF i % 2 = 1 THEN p ELSE q] : p \in Prices, q \in Prices }

\* Forward curves from the storage's start: the price lists over the window at
\* the storage's granularity; a flat curve at every other granularity; and a
\* flat curve at the storage's granularity that starts a day late.
ForwardCurves(self, a) ==
    { Series(a.freq, a.storage_start, values) : values \in PriceLists(WindowLength(self)) }
    \cup { Series(f, a.storage_start, [i \in 1..WindowLength(self) |-> 1]) :
            f \in SupportedFreqs \ {a.freq} }
    \cup { Series(a.freq, Date(a.storage_start.day + 1), [i \in 1..WindowLength(self) |-> 1]) }

\* Flat interest rate curves at k = 0 and k = 1: a Series indexed by the days on
\* which a period of the storage's window starts, and the days after them.
InterestRates(self, k) ==
    LET starts == { PeriodStart([type |-> self._net_storage.StartPeriod.type, index |-> p])
                        \div MinutesPerDay :
                    p \in self._net_storage.StartPeriod.index..self._net_storage.EndPeriod.index }
    IN [day \in starts \cup { d + 1 : d \in starts } |-> k]

Discounting == { <<0, "same_day">>, <<1, "next_day">> }

\* Valuation dates: the storage's start, and the start of its second period.
ValDates(a) == { a.storage_start, SeriesIndexAt(Series(a.freq, a.storage_start, << >>), 2) }

ValuationArgs(self, a) ==
    { [val_date |-> vd, inventory |-> i, forward_curve |-> fc,
       settlement_rule |-> ds[2], interest_rates |-> InterestRates(self, ds[1]),
       num_inventory_grid_points |-> n, numerical_tolerance |-> tol] :
      vd \in ValDates(a), i \in StartingInventories, fc \in ForwardCurves(self, a),
      ds \in Discounting, n \in GridPointCounts, tol \in Tolerances }

ConstructForValuation ==
    /\ pc = "new"
    /\ \E a \in ValArgs : ConstructWith(a)

\* The caller puts the arguments of a valuation together.
PrepareValuation ==
    /\ pc = "built"
    /\ \E a \in ValuationArgs(storage, ctor) : pending' = a
    /\ pc' = "calling"
    /\ call' = [op |-> "prepare"]
    /\ raised' = None
    /\ UNCHANGED <<ctor, storage, gui, inputs>>

\* intrinsic_value(storage, val_date, inventory, forward_curve, settlement_rule,
\*                 interest_rates, num_inventory_grid_points, numerical_tolerance)
CallIntrinsicValue ==
    /\ pc = "calling"
    /\ LET r == intrinsic_value(storage, pending)
       IN /\ call' = [op |-> "intrinsic_value", args |-> pending, stage |-> r.stage,
                      result |-> r.result]
          /\ raised' = r.raised
    /\ pc' = "valued"
    /\ UNCHANGED <<ctor, storage, pending, gui, inputs>>

\* The caller lets go of the results and of the arguments.
DropResults ==
    /\ pc = "valued"
    /\ pc' = "built"
    /\ call' = NoCall
    /\ pending' = NoCall
    /\ raised' = None
    /\ UNCHANGED <<ctor, storage, gui, inputs>>

NextValuation ==
    \/ ConstructForValuation
    \/ PrepareValuation
    \/ CallIntrinsicValue
    \/ DropResults

SpecValuation == Init /\ [][NextValuation]_vars

(***************************************************************************)
(* storage_gui.py: btn_clicked, step by step                               *)
(***************************************************************************)
ProgressResolution == 2

\* The attributes of a CmdtyStorage object.
CmdtyStorageAttributes ==
    {"_net_storage", "_freq", "_net_time_period", "net_storage", "freq",
     "must_be_empty_at_end", "start_period", "end_period", "inject_withdraw_range",
     "min_inventory", "max_inventory", "injection_cost", "cmdty_consumed_inject",
     "withdrawal_cost", "cmdty_consumed_withdraw", "terminal_storage_npv",
     "inventory_pcnt_loss", "inventory_cost"}

\* progress_wgt.value = value: a FloatProgress keeps its value between its min
\* (0.0) and its max (1.0).
FloatProgressValue(value) ==
    IF value < 0 THEN 0 ELSE IF value > ProgressResolution THEN ProgressResolution ELSE value

\* What three_factor_seasonal_value may do once it has made its callbacks:
\* return its results or raise.
ThreeFactorOutcomes ==
    { [raised |-> None, npv |-> 3, intrinsic_npv |-> 2, extrinsic_npv |-> 1],
      [raised |-> None, npv |-> 0, intrinsic_npv |-> 0, extrinsic_npv |-> 0],
      [raised |-> "EngineError", npv |-> 0, intrinsic_npv |-> 0, extrinsic_npv |-> 0] }

\* An exception raised inside the try block, at a step of it.
Raise(exception, at) ==
    [gui EXCEPT !.step = "except", !.exception = exception, !.raised_at = at]

\* The user fills in the input widgets while the button can be clicked.
EnterInputs ==
    /\ gui.step = "idle"
    /\ \E w \in GuiInputs : inputs' = w
    /\ UNCHANGED <<pc, ctor, storage, raised, call, pending, gui>>

\* btn_clicked, up to try: a disabled button takes no click.
BtnClickedReset ==
    /\ gui.step = "idle"
    /\ ~gui.btn_disabled
    /\ gui' = [gui EXCEPT !.step = "read_fwd_curve",
                          !.progress_wgt = 0,
                          !.value_wgts = <<"", "", "">>,
                          !.btn_disabled = TRUE,
                          !.out = << >>,
                          !.exception = None,
                          !.raised_at = None,
                          !.propagated = None]
    /\ UNCHANGED <<pc, ctor, storage, raised, call, pending, inputs>>

\* fwd_curve = read_fwd_curve()
BtnClickedReadFwdCurve ==
    /\ gui.step = "read_fwd_curve"
    /\ LET r == read_fwd_curve(inputs.fwd_input_sheet)
       IN gui' = IF r.raised # None
                 THEN Raise(r.raised, "read_fwd_curve")
                 ELSE [gui EXCEPT !.step = "build_storage", !.fwd_curve = r.fwd_curve]
    /\ UNCHANGED <<pc, ctor, storage, raised, call, pending, inputs>>

\* storage = CmdtyStorage(...) of the storage type chosen; the global keeps its
\* value when the construction raises.
BtnClickedBuildStorage ==
    /\ gui.step = "build_storage"
    /\ LET ratchets == read_ratchets(inputs.ratch_input_sheet)
           r == IF inputs.stor_type_wgt = "Simple"
                THEN CmdtyStorage(SimpleArguments(inputs))
                ELSE IF ratchets.raised # None
                     THEN [raised |-> ratchets.raised, self |-> NoStorage]
                     ELSE CmdtyStorage(RatchetArguments(inputs, ratchets.ratchets))
       IN IF r.raised # None
          THEN /\ gui' = Raise(r.raised, "build_storage")
               /\ UNCHANGED storage
          ELSE /\ gui' = [gui EXCEPT !.step = "value"]
               /\ storage' = r.self
    /\ UNCHANGED <<pc, ctor, raised, call, pending, inputs>>

\* The interest rate curve is made and three_factor_seasonal_value is entered.
BtnClickedValue ==
    /\ gui.step = "value"
    /\ gui' = [gui EXCEPT !.step = "valuing"]
    /\ UNCHANGED <<pc, ctor, storage, raised, call, pending, inputs>>

\* on_progress(progress), called by the engine during the valuation.  The
\* source does not decide which numbers the engine passes: any number, in any
\* order.
OnProgress ==
    /\ gui.step = "valuing"
    /\ \E progress \in -1..(ProgressResolution + 1) :
          gui' = [gui EXCEPT !.progress_wgt = FloatProgressValue(progress)]
    /\ UNCHANGED <<pc, ctor, storage, raised, call, pending, inputs>>

\* three_factor_seasonal_value returns val_results_3f or raises.
BtnClickedValued ==
    /\ gui.step = "valuing"
    /\ \E outcome \in ThreeFactorOutcomes :
          gui' = IF outcome.raised # None
                 THEN Raise(outcome.raised, "value")
                 ELSE [gui EXCEPT !.step = "show_values", !.val_results_3f = outcome]
    /\ UNCHANGED <<pc, ctor, storage, raised, call, pending, inputs>>

\* The three value fields take the formatted results.
BtnClickedShowValues ==
    /\ gui.step = "show_values"
    /\ gui' = [gui EXCEPT !.step = "plot",
                          !.value_wgts = <<ToString(gui.val_results_3f.npv),
                                           ToString(gui.val_results_3f.intrinsic_npv),
                                           ToString(gui.val_results_3f.extrinsic_npv)>>]
    /\ UNCHANGED <<pc, ctor, storage, raised, call, pending, inputs>>

\* The plots: fwd_curve[storage.start:storage.end] reads two attributes of the
\* storage object; the figures are shown by the last statement of the block.
BtnClickedPlot ==
    /\ gui.step = "plot"
    /\ gui' = IF {"start", "end"} \subseteq CmdtyStorageAttributes
              THEN [gui EXCEPT !.step = "finally", !.out = Append(@, "plots")]
              ELSE Raise("AttributeError", "plot")
    /\ UNCHANGED <<pc, ctor, storage, raised, call, pending, inputs>>

\* except Exception as e: print('Exception:'); print(e).  The classes that do
\* not derive from Exception are not caught.
BtnClickedExcept ==
    /\ gui.step = "except"
    /\ gui' = IF gui.exception \in {"KeyboardInterrupt", "SystemExit", "GeneratorExit"}
              THEN [gui EXCEPT !.step = "finally"]
              ELSE [gui EXCEPT !.step = "finally",
                               !.out = @ \o <<"Exception:", gui.exception>>,
                               !.exception = None]
    /\ UNCHANGED <<pc, ctor, storage, raised, call, pending, inputs>>

\* A variant that enables the button at the end of the try block only.
BtnClickedFinallyAfterSuccess ==
    /\ gui.step = "finally"
    /\ gui' = [gui EXCEPT !.step = "idle",
                          !.btn_disabled = (gui.raised_at # None),
                          !.propagated = gui.exception,
                          !.exception = None]
    /\ UNCHANGED <<pc, ctor, storage, raised, call, pending, inputs>>

\* finally: btn.disabled = False; an exception not caught leaves btn_clicked.
BtnClickedFinally ==
    /\ gui.step = "finally"
    /\ gui' = [gui EXCEPT !.step = "idle",
                          !.btn_disabled = FALSE,
                          !.propagated = gui.exception,
                          !.exception = None]
    /\ UNCHANGED <<pc, ctor, storage, raised, call, pending, inputs>>

NextGui ==
    \/ EnterInputs
    \/ BtnClickedReset
    \/ BtnClickedReadFwdCurve
    \/ BtnClickedBuildStorage
    \/ BtnClickedValue
    \/ OnProgress
    \/ BtnClickedValued
    \/ BtnClickedShowValues
    \/ BtnClickedPlot
    \/ BtnClickedExcept
    \/ BtnClickedFinally

SpecGui == Init /\ [][NextGui]_vars

(***************************************************************************)
(* Properties of the storage object                                        *)
(***************************************************************************)
\* The breakpoints of the ratchet in force at the period of the last call.
RatesInForce == EffectiveRatchet(storage._net_storage, _net_time_period(storage, call.period)).Rates

\* f is the value at x of the line through (x0, y0) and (x1, y1).
OnLine(f, x0, y0, x1, y1, x) == f[1] * (x1 - x0) = f[2] * (y0 * (x1 - x) + y1 * (x - x0))

TestCase ==
    /\ call.op = "inject_withdraw_range"
    /\ raised = None
    /\ ctor.freq = "D"
    /\ ctor.storage_start = Date(Day_2019_08_28)
    /\ ctor.storage_end = Date(Day_2019_09_25)
    /\ ctor.constraints = <<InjectWithdrawByInventoryAndPeriod(Date(Day_2019_08_28), TestRates)>>
    /\ call.period = Date(Day_2019_08_29)
    /\ call.inventory = TestInventory

\* C1: inject_withdraw_range(period, inventory) returns the rates of the ratchet
\* in force at the period, linearly interpolated between the two breakpoints
\* that bracket the inventory; below the lowest and above the highest breakpoint
\* it returns that breakpoint's rates; at the exact midpoint of two breakpoints
\* both rates are the mean of the breakpoints' rates, and the unit test's case
\* gives (-175.0, 215.1).
C1_InterpolatedRange ==
    (call.op = "inject_withdraw_range" /\ raised = None) =>
        LET rates == RatesInForce
            n == Len(rates)
            x == call.inventory
            lo == call.result[1]
            hi == call.result[2]
        IN /\ x <= rates[1].Inventory =>
                /\ FracEq(lo, FracOfInt(rates[1].MinInjectWithdrawRate))
                /\ FracEq(hi, FracOfInt(rates[1].MaxInjectWithdrawRate))
           /\ x >= rates[n].Inventory =>
                /\ FracEq(lo, FracOfInt(rates[n].MinInjectWithdrawRate))
                /\ FracEq(hi, FracOfInt(rates[n].MaxInjectWithdrawRate))
           /\ \A k \in 1..(n - 1) :
                (rates[k].Inventory <= x /\ x <= rates[k + 1].Inventory) =>
                    /\ OnLine(lo, rates[k].Inventory, rates[k].MinInjectWithdrawRate,
                              rates[k + 1].Inventory, rates[k + 1].MinInjectWithdrawRate, x)
                    /\ OnLine(hi, rates[k].Inventory, rates[k].MaxInjectWithdrawRate,
                              rates[k + 1].Inventory, rates[k + 1].MaxInjectWithdrawRate, x)
                    /\ (2 * x = rates[k].Inventory + rates[k + 1].Inventory =>
                            /\ 2 * lo[1] = lo[2] * (rates[k].MinInjectWithdrawRate
                                                    + rates[k + 1].MinInjectWithdrawRate)
                            /\ 2 * hi[1] = hi[2] * (rates[k].MaxInjectWithdrawRate
                                                    + rates[k + 1].MaxInjectWithdrawRate))
           /\ TestCase => (FracEq(lo, FracOfInt(-1750)) /\ FracEq(hi, FracOfInt(2151)))

\* The unit test's call has returned (-175.0, 215.1).
C1_Witness ==
    /\ TestCase
    /\ FracEq(call.result[1], FracOfInt(-1750))
    /\ FracEq(call.result[2], FracOfInt(2151))

\* C3: a storage constructed without a terminal-value function must be empty at
\* the end; one constructed with a function need not, and its terminal value is
\* the function applied to (price, inventory); exactly one of the two rules is
\* in force for every constructed storage.
C3_TerminalRule ==
    /\ storage.exists =>
        /\ must_be_empty_at_end(storage) = (ctor.terminal_storage_npv = None)
        /\ storage._net_storage.MustBeEmptyAtEnd = (storage._net_storage.TerminalInventoryNpv = None)
    /\ call.op = "properties" =>
        call.must_be_empty_at_end = (ctor.terminal_storage_npv = None)
    /\ (call.op = "terminal_storage_npv" /\ ctor.terminal_storage_npv # None) =>
        call.result = ApplyTerminalFunction(ctor.terminal_storage_npv, call.cmdty_price,
                                            call.terminal_inventory)

\* The terminal value of a storage built with a function has been asked for.
C3_Witness ==
    /\ call.op = "terminal_storage_npv"
    /\ ctor.terminal_storage_npv = "price_times_inventory"
    /\ ~must_be_empty_at_end(storage)
    /\ call.cmdty_price = 8
    /\ call.terminal_inventory = 5000
    /\ call.result = 40000

\* The datetime lies on a boundary of the granularity's periods.
Aligned(datetime_like, f) ==
    CASE f = "15min" -> AsDateTime(datetime_like) % 15 = 0
      [] f = "30min" -> AsDateTime(datetime_like) % 30 = 0
      [] OTHER -> TRUE

\* C4 as amended: the storage reports the constructor's granularity through
\* freq, and start_period and end_period equal the constructor's start and end
\* converted to a period of that granularity for the granularities H, D, M and
\* Q, and for 15min and 30min when the start (the end) lies on a boundary of the
\* granularity.
C4_PeriodsRoundTripAligned ==
    call.op = "properties" =>
        /\ call.freq = ctor.freq
        /\ Aligned(ctor.storage_start, ctor.freq) =>
            call.start_period = PandasPeriod(AsDateTime(ctor.storage_start), ctor.freq)
        /\ Aligned(ctor.storage_end, ctor.freq) =>
            call.end_period = PandasPeriod(AsDateTime(ctor.storage_end), ctor.freq)

\* The properties of a quarter-hourly storage that starts at 00:45 have been read.
C4_Witness ==
    /\ call.op = "properties"
    /\ ctor.freq = "15min"
    /\ ctor.storage_start = DateTime(Day_2019_08_28, 45)
    /\ call.start_period = PandasPeriod(AsDateTime(ctor.storage_start), "15min")

\* C4 as stated: for every supported granularity and every start and end,
\* start_period and end_period equal the constructor's start and end converted
\* to a period of that granularity.
C4_PeriodsRoundTrip ==
    call.op = "properties" =>
        /\ call.freq = ctor.freq
        /\ call.start_period = PandasPeriod(AsDateTime(ctor.storage_start), ctor.freq)
        /\ call.end_period = PandasPeriod(AsDateTime(ctor.storage_end), ctor.freq)

\* The period of a datetime_like at the constructor's granularity.
CtorPeriod(datetime_like) == _from_datetime_like(datetime_like, FREQ_TO_PERIOD_TYPE[ctor.freq]).index

\* The constructor's ratchets whose period is not after the period of the last call.
CtorRatchetsInForce ==
    { i \in 1..Len(ctor.constraints) : CtorPeriod(ctor.constraints[i].period) <= CtorPeriod(call.period) }

InActiveWindow(datetime_like) ==
    /\ CtorPeriod(ctor.storage_start) <= CtorPeriod(datetime_like)
    /\ CtorPeriod(datetime_like) <= CtorPeriod(ctor.storage_end)

\* C5: at every period of the active window the inject/withdraw range is that
\* of the constructor's ratchet with the latest period not after it: a ratchet
\* applies from its own period until the next one starts, a later ratchet does
\* not change an earlier period, a superseded one no longer applies.
C5_LatestRatchetApplies ==
    (call.op = "inject_withdraw_range" /\ InActiveWindow(call.period)) =>
        /\ CtorRatchetsInForce # {} => raised = None
        /\ \A i \in CtorRatchetsInForce :
            (\A j \in CtorRatchetsInForce :
                CtorPeriod(ctor.constraints[j].period) <= CtorPeriod(ctor.constraints[i].period)) =>
                LET expected ==
                        RangeOfRatchet(
                            [k \in 1..Len(ctor.constraints[i].rates_by_inventory) |->
                                InjectWithdrawRangeByInventory(
                                    ctor.constraints[i].rates_by_inventory[k][1],
                                    ctor.constraints[i].rates_by_inventory[k][2],
                                    ctor.constraints[i].rates_by_inventory[k][3])],
                            call.inventory)
                IN /\ FracEq(call.result[1], expected.MinInjectWithdrawRate)
                   /\ FracEq(call.result[2], expected.MaxInjectWithdrawRate)

\* A range has been read at the period of the second of two ratchets, and at
\* a period between the two.
C5_Witness ==
    /\ call.op = "inject_withdraw_range"
    /\ raised = None
    /\ Len(ctor.constraints) = 2
    /\ ctor.constraints[1].period = Date(Day_2019_08_28)
    /\ ctor.constraints[2].period = Date(Day_2019_09_10)
    /\ call.period = Date(Day_2019_09_25)
    /\ call.inventory = 5000
    /\ FracEq(call.result[2], FracOfInt(1000))

(***************************************************************************)
(* Properties of intrinsic_value                                           *)
(***************************************************************************)
Valued == call.op = "intrinsic_value"
Succeeded == Valued /\ raised = None

\* The decisions of the returned decision profile.
Decisions == call.result.decision_profile.values

\* The i-th period of the returned decision profile, as a datetime_like.
ProfilePeriod(i) ==
    LET start == call.result.decision_profile.start
    IN SeriesIndexAt(Series(call.result.decision_profile.freq,
                            DateTime(start \div MinutesPerDay, start % MinutesPerDay),
                            Decisions), i)

\* The inventory at the start of the i-th period when the returned decisions are
\* replayed from the starting inventory.
RECURSIVE ReplayedInventory(_)
ReplayedInventory(i) ==
    IF i <= 1
    THEN call.args.inventory
    ELSE NextInventory(storage._net_storage, ReplayedInventory(i - 1), Decisions[i - 1])

\* C2: intrinsic_value fails with a frequency-mismatch error whenever the
\* forward curve's granularity differs from the storage's, whatever the two
\* granularities are; it fails before any step of the valuation, so that no
\* result is returned and the storage is as construction left it.
C2_FrequencyMismatchRejected ==
    (Valued /\ call.args.forward_curve.freq # ctor.freq) =>
        /\ raised = "ValueError"
        /\ call.stage = "frequency_check"
        /\ call.result = NoValuation
        /\ storage = CmdtyStorage_init(ctor).self

\* A daily storage has been valued with an hourly forward curve.
C2_Witness ==
    /\ Valued
    /\ ctor.freq = "D"
    /\ call.args.forward_curve.freq = "H"
    /\ call.args.num_inventory_grid_points = 3
    /\ raised = "ValueError"

\* C6: when the valuation of a storage that must be empty at the end succeeds,
\* replaying the returned decisions from the starting inventory through the end
\* period reaches inventory 0, and 0 is the only inventory the end period admits.
C6_EmptyAtEnd ==
    (Succeeded /\ must_be_empty_at_end(storage)) =>
        /\ ReplayedInventory(Len(Decisions) + 1) = 0
        /\ min_inventory(storage, ctor.storage_end) = 0
        /\ max_inventory(storage, ctor.storage_end) = 0

\* A storage that must be empty at the end has been valued from inventory 4 over
\* two decision periods.
C6_Witness ==
    /\ Succeeded
    /\ must_be_empty_at_end(storage)
    /\ call.args.inventory = 4
    /\ Decisions = <<-2, -2>>

\* C7: in every successful valuation the inventory replayed from the starting
\* inventory lies within [min_inventory(p), max_inventory(p)] at every period p
\* from the first period through the end, so that every decision leaves an
\* inventory within the next period's range.
C7_TrajectoryWithinRange ==
    Succeeded =>
        \A i \in 1..(Len(Decisions) + 1) :
            /\ min_inventory(storage, ProfilePeriod(i)) <= ReplayedInventory(i)
            /\ ReplayedInventory(i) <= max_inventory(storage, ProfilePeriod(i))

\* A valuation from an empty storage has injected and then withdrawn under a
\* second ratchet of a narrower inventory range.
C7_Witness ==
    /\ Succeeded
    /\ Len(ctor.constraints) = 2
    /\ call.args.inventory = 0
    /\ Len(Decisions) = 2
    /\ Decisions[1] > 0
    /\ Decisions[2] < 0

\* The calculation as the last call configured it.
ValContext == IntrinsicCalc(storage, call.args, call.args.inventory)

\* The present value of the cashflows of the replayed decisions from the i-th on.
RECURSIVE ReplayedCashflows(_)
ReplayedCashflows(i) ==
    IF i > Len(Decisions)
    THEN FracOfInt(0)
    ELSE FracAdd(PresentValue(ValContext, FirstPeriod(ValContext) + i - 1,
                              ReplayedInventory(i), Decisions[i]),
                 ReplayedCashflows(i + 1))

\* The discounted cashflows of the replay, and the terminal value of the
\* inventory it ends with.
ReplayedValue ==
    FracAdd(ReplayedCashflows(1),
            FracOfInt(TerminalStorageNpv(storage._net_storage,
                                         SeriesAt(ValContext.forward_curve,
                                                  storage._net_storage.EndPeriod.index),
                                         ReplayedInventory(Len(Decisions) + 1))))

\* Every inventory of the replay, the starting one included, is a point of the
\* inventory grid of its period.
ReplayOnGrid ==
    \A i \in 1..(Len(Decisions) + 1) :
        ReplayedInventory(i) \in GridOf(ValContext, FirstPeriod(ValContext) + i - 1)

ZeroDecisionInRange ==
    \A i \in 1..Len(ctor.constraints) :
        \A k \in 1..Len(ctor.constraints[i].rates_by_inventory) :
            /\ ctor.constraints[i].rates_by_inventory[k][2] <= 0
            /\ 0 <= ctor.constraints[i].rates_by_inventory[k][3]

\* C9: for a storage that must be empty at the end, valued from zero inventory,
\* whose inject/withdraw range holds the zero decision at every period, the
\* calculation over a forward curve that covers the window does not fail and the
\* NPV is at least 0.
C9_NpvNotNegative ==
    (Valued /\ must_be_empty_at_end(storage) /\ call.args.inventory = 0 /\ ZeroDecisionInRange) =>
        /\ call.args.forward_curve.first = ctor.storage_start => call.stage # "calculate"
        /\ raised = None => FracLeq(FracOfInt(0), call.result.npv)

\* Such a storage, with costs, has been valued on a flat curve; doing nothing was best.
C9_Witness ==
    /\ Succeeded
    /\ must_be_empty_at_end(storage)
    /\ call.args.inventory = 0
    /\ ZeroDecisionInRange
    /\ ctor.injection_cost = 1
    /\ ctor.withdrawal_cost = 2
    /\ call.args.forward_curve.values = <<3, 3, 3>>
    /\ Decisions = <<0, 0>>
    /\ FracEq(call.result.npv, FracOfInt(0))

\* The constructor was given breakpoints that are not in ascending order of inventory.
CtorBreakpointsUnsorted ==
    \E i \in 1..Len(ctor.constraints) :
        \E k \in 1..(Len(ctor.constraints[i].rates_by_inventory) - 1) :
            ctor.constraints[i].rates_by_inventory[k][1]
                > ctor.constraints[i].rates_by_inventory[k + 1][1]

\* The constructor was given a breakpoint whose min rate is above its max rate.
CtorMinAboveMax ==
    \E i \in 1..Len(ctor.constraints) :
        \E k \in 1..Len(ctor.constraints[i].rates_by_inventory) :
            ctor.constraints[i].rates_by_inventory[k][2]
                > ctor.constraints[i].rates_by_inventory[k][3]

\* The constructor was given a start period that is not before the end period.
CtorStartNotBeforeEnd == CtorPeriod(ctor.storage_start) >= CtorPeriod(ctor.storage_end)

\* A malformed configuration is rejected by the constructor, which leaves no storage.
MalformedRejectedAtConstruction ==
    (/\ pc # "new"
     /\ ctor.freq \in SupportedFreqs
     /\ (CtorBreakpointsUnsorted \/ CtorMinAboveMax \/ CtorStartNotBeforeEnd)) =>
        /\ pc = "failed"
        /\ raised = "ValidationError"
        /\ ~storage.exists

\* C10 as amended: breakpoints not in ascending order, a min rate above a max
\* rate and a start period not before the end period are rejected with a
\* validation error when the storage is constructed, and no storage is produced;
\* a grid point count below 2 is an argument of intrinsic_value and is rejected
\* with a validation error by that call, once the frequency check and the forward
\* curve have passed, before the calculation is started and with no result; the
\* calculation itself raises no validation error.
C10_ValidationAtConstructionAndGridSetup ==
    /\ MalformedRejectedAtConstruction
    /\ Valued =>
        /\ raised = "ValidationError" <=> call.stage = "grid_points"
        /\ raised = "ValidationError" =>
            (call.args.num_inventory_grid_points < 2 /\ call.result = NoValuation)
        /\ (/\ call.args.num_inventory_grid_points < 2
            /\ call.stage \notin {"frequency_check", "forward_curve"}) =>
                raised = "ValidationError"

\* The constructor has rejected a min rate above a max rate.
C10_Witness ==
    /\ pc = "failed"
    /\ call.op = "__init__"
    /\ CtorMinAboveMax
    /\ ~CtorBreakpointsUnsorted
    /\ ~CtorStartNotBeforeEnd
    /\ raised = "ValidationError"
    /\ ~storage.exists

\* C10 as stated: every malformed configuration, a grid point count below 2
\* included, is rejected when the storage is constructed, and no validation
\* error is raised from inside a valuation call.
C10_ValidationOnlyAtConstruction ==
    /\ MalformedRejectedAtConstruction
    /\ Valued => raised # "ValidationError"

\* The starting inventory of the last call lies outside the inventory range of
\* the period of the valuation date, as the storage's accessors report it.
StartingInventoryOutside ==
    \/ call.args.inventory < min_inventory(storage, call.args.val_date)
    \/ call.args.inventory > max_inventory(storage, call.args.val_date)

\* Nothing but the starting inventory can be wrong with the last call: the
\* forward curve passes the frequency check and starts with the storage, the
\* grid has at least two points, the valuation date is before the end period.
OtherArgumentsValid ==
    /\ FreqStr(call.args.forward_curve.freq) = ctor.freq
    /\ call.args.forward_curve.first = ctor.storage_start
    /\ call.args.num_inventory_grid_points >= 2
    /\ CtorPeriod(call.args.val_date) < CtorPeriod(ctor.storage_end)

InputsWellFormed ==
    /\ AsDateTime(inputs.start_wgt) < AsDateTime(inputs.end_wgt)
    /\ inputs.ratch_input_sheet[1].date.text = "date"
    /\ inputs.ratch_input_sheet[1].inventory = 0

\* btn_clicked has just run its CmdtyStorage(...) call.
StorageConstructionDone ==
    \/ gui.step = "value"
    \/ gui.step = "except" /\ gui.raised_at = "build_storage"

\* C12: a storage is constructed from the simple constant form (min/max
\* inventory, max injection rate, max withdrawal rate, no ratchet list) as well
\* as from a ratchet list: with well-formed inputs the construction of either
\* storage type succeeds and leaves a storage object whose accessors answer.
C12_BothFormsConstruct ==
    StorageConstructionDone /\ InputsWellFormed =>
        /\ gui.step = "value"
        /\ storage.exists
        /\ start_period(storage).start = AsDateTime(inputs.start_wgt)
        /\ min_inventory(storage, inputs.start_wgt) <= max_inventory(storage, inputs.start_wgt)

(***************************************************************************)
(* Properties of the backward sweep                                        *)
(***************************************************************************)
\* The decision of a node of the sweep at period_index is feasible, its value
\* is its objective, no feasible decision has an objective above it by more
\* than the tolerance, and no feasible decision within the tolerance of the
\* maximum has a smaller |d|.
NodeSelectsOptimum(c, period_index, node, next_table) ==
    Bind(FeasibleDecisions(c, period_index, node.inv, next_table),
         LAMBDA feasible :
            IF feasible = {}
            THEN ~node.ok
            ELSE Bind([d \in feasible |-> Objective(c, period_index, node.inv, d, next_table)],
                      LAMBDA objective :
                        LET WithinTolerance(d) ==
                                \A e \in feasible :
                                    FracLeq(FracSub(objective[e], c.numerical_tolerance), objective[d])
                        IN /\ node.ok
                           /\ node.d \in feasible
                           /\ FracEq(node.v, objective[node.d])
                           /\ WithinTolerance(node.d)
                           /\ \A d \in feasible : WithinTolerance(d) => Abs(node.d) <= Abs(d)
                           /\ (0 \in feasible /\ WithinTolerance(0)) => node.d = 0))

\* C14: at every period and grid inventory of the backward sweep of a
\* valuation, the decision selected is feasible and maximises the objective
\* within the numerical tolerance; among the decisions within the tolerance of
\* the maximum it has the smallest |d|, so it is zero whenever zero ties.
C14_SweepSelectsOptimum ==
    Succeeded =>
        Bind(BackwardSweep(ValContext, FirstPeriod(ValContext)),
             LAMBDA tables :
                \A k \in 1..(Len(tables) - 1) :
                    \A node \in tables[k] :
                        NodeSelectsOptimum(ValContext, FirstPeriod(ValContext) + k - 1,
                                           node, tables[k + 1]))

\* A valuation with a positive tolerance in which, at a grid inventory of the
\* first period, a decision other than zero has a larger objective than zero
\* and zero is selected.
C14_Witness ==
    /\ Succeeded
    /\ FracLess(FracOfInt(0), call.args.numerical_tolerance)
    /\ Bind(BackwardSweep(ValContext, FirstPeriod(ValContext)),
            LAMBDA tables :
                /\ Len(tables) > 1
                /\ \E node \in tables[1] :
                      /\ node.ok
                      /\ node.d = 0
                      /\ \E d \in FeasibleDecisions(ValContext, FirstPeriod(ValContext),
                                                     node.inv, tables[2]) :
                            FracLess(node.v, Objective(ValContext, FirstPeriod(ValContext),
                                                       node.inv, d, tables[2])))

(***************************************************************************)
(* Properties of the constructor's frequency check                         *)
(***************************************************************************)
\* C15: a construction with a freq outside the supported set raises ValueError
\* whatever its other arguments are, and leaves no storage object; a
\* construction with a supported freq does not raise ValueError.
C15_UnsupportedFreqRejected ==
    call.op = "__init__" =>
        /\ ctor.freq \notin SupportedFreqs =>
                (raised = "ValueError" /\ pc = "failed" /\ ~storage.exists)
        /\ ctor.freq \in SupportedFreqs => raised # "ValueError"

\* A construction with an unsupported freq and a window the builder would
\* reject has raised ValueError.
C15_Witness ==
    /\ call.op = "__init__"
    /\ ctor.freq = "W"
    /\ AsDateTime(ctor.storage_start) > AsDateTime(ctor.storage_end)
    /\ raised = "ValueError"
    /\ ~storage.exists

(***************************************************************************)
(* Properties of btn_clicked                                               *)
(***************************************************************************)
\* C16: while a click is handled the button is disabled, and until the
\* valuation is entered the progress bar is at 0.0 and the three value
\* fields are empty; once btn_clicked has returned the button is enabled, no
\* exception has left it, and an exception raised at any step has been
\* printed.
C16_ButtonDisabledWhileHandling ==
    /\ gui.step # "idle" => gui.btn_disabled
    /\ gui.step \in {"read_fwd_curve", "build_storage", "value"} =>
            (gui.progress_wgt = 0 /\ gui.value_wgts = <<"", "", "">>)
    /\ gui.step = "idle" =>
            /\ ~gui.btn_disabled
            /\ gui.propagated = None
            /\ gui.raised_at # None =>
                    (Len(gui.out) >= 2 /\ gui.out[Len(gui.out) - 1] = "Exception:")

\* btn_clicked has returned after an exception raised while plotting, the
\* value fields filled: the button is enabled and the exception printed.
C16_Witness ==
    /\ gui.step = "idle"
    /\ gui.raised_at = "plot"
    /\ gui.value_wgts[1] = "3"
    /\ gui.progress_wgt > 0
    /\ ~gui.btn_disabled
    /\ gui.out = <<"Exception:", "AttributeError">>
====
